---- MODULE Spec2Model ----
(***************************************************************************)
(* Manga-Translator-Pro: the page scheduler of App.tsx (concurrency        *)
(* ceiling + sliding-window rate limit over the MangaPage collection),     *)
(* the worker call processPage / translateMangaPage and the regenerate     *)
(* buttons of MangaReader.                                                  *)
(*                                                                         *)
(* React state is modelled in two layers.  hasKey, pages, requestHistory   *)
(* are the component state with every queued functional update applied     *)
(* (all updates in the source are of the form setX(prev => ...)).          *)
(* rHasKey, rPages, rHistory are the values captured by a render for its   *)
(* scheduler effect, kept while that effect has not run yet.  An effect    *)
(* runs once per render whose dependencies changed, React flushes the      *)
(* effect of a render before it renders again, and state updates may be    *)
(* queued between a render and its effect.                                 *)
(***************************************************************************)
EXTENDS Integers, Sequences, FiniteSets, TLC

\* ---------------------------------------------------------------- constants
CONCURRENCY_LIMIT == 5
RPM_LIMIT == 20
WINDOW_MS == 60000

\* ------------------------------------------------------------------- bounds
\* a run of a small upload performs at most MaxAdmissions admissions in total
MaxAdmissions == 23
\* a run of the large upload regenerates at most PoolRegenerations times
PoolRegenerations == 1
\* at most MaxQueued state updates are queued between a render and its effect
MaxQueued == 1
\* the clock stops advancing at MaxTime (milliseconds since mount); in the runs
\* of the large upload at PoolMaxTime
MaxTime == 60000
PoolMaxTime == 30000
\* in the runs checked for progress the regenerate requests come no later than
\* LiveRegenerateUntil and the clock is followed until LiveMaxTime, one window
\* later
LiveRegenerateUntil == 0
LiveMaxTime == 60000

\* the clock advances by one of these amounts between two events
TimeSteps == {30000}

VARIABLES
    hasKey,          \* App state: an API key was selected
    pages,           \* App state: the MangaPage collection
    requestHistory,  \* App state: admission timestamps (rate log)
    renderDue,       \* a state update is queued that no render has taken up yet
    effectDue,       \* the scheduler effect of the latest render has not run yet
    queued,          \* state updates queued since that render, while its effect is due
    rHasKey,         \* hasKey as captured for the pending effect
    rPages,          \* pages as captured for the pending effect
    rHistory,        \* requestHistory as captured for the pending effect
    now,             \* Date.now()
    calls,           \* unresolved processPage calls: id -> [fresh, stale]
    dispatched,      \* history: id -> processPage calls since the last regenerate
    stamped,         \* history: id -> timestamps recorded for it since the last regenerate
    appended,        \* history: timestamps ever appended to requestHistory
    admissions,      \* history: the time of every pending -> processing transition
    prep,            \* a handleFilesSelected call in manhwa mode: isPreparing and its loop
    split,           \* a splitLongImage call: its input, position and outcome
    scan             \* a findExactCutInZone call: its input, result and reads

vars == <<hasKey, pages, requestHistory, renderDue, effectDue, queued, rHasKey,
          rPages, rHistory, now, calls, dispatched, stamped, appended, admissions,
          prep, split, scan>>

\* the render side of the state
view == <<renderDue, effectDue, queued, rHasKey, rPages, rHistory>>
\* the history variables
ghosts == <<dispatched, stamped, appended, admissions>>
\* the App component; the image slicer lives outside of it
app == <<hasKey, pages, requestHistory, view, now, calls, ghosts>>
slicing == <<prep, split, scan>>

\* ------------------------------------------------------------------ helpers
Min2(a, b) == IF a <= b THEN a ELSE b

Range(s) == {s[i] : i \in DOMAIN s}

Ids(ps) == {ps[i].id : i \in DOMAIN ps}

CountStatus(ps, st) == Cardinality({i \in DOMAIN ps : ps[i].status = st})

\* the image content of a file: "art" has enough variance to be translated,
\* "flat" is a solid colour / gutter (isComplexImage resolves false)
Images == {"art", "flat"}

NullUrl == "null"

\* `data:${mimeType};base64,${base64Image}` of the file itself
OriginalDataUrl(file) == "data:original:" \o file

\* `data:image/png;base64,${part.inlineData.data}` returned by the model
GeneratedDataUrl == "data:image/png:generated"

isComplexImage(file) == file = "art"

\* a page as created by handleFilesSelected
NewPage(i, file) ==
    [id |-> i, originalFile |-> file.image, pageNumber |-> file.number,
     status |-> "pending", translatedUrl |-> NullUrl]

\* ------------------------------------------------------- handleFilesSelected
\* a file of the upload: the number extractNumber finds in its name, its content
Compare(a, b, sortOrder) ==
    IF sortOrder = "asc" THEN a.number - b.number ELSE b.number - a.number

\* insert f behind every element that does not sort after it (the sort is stable)
RECURSIVE InsertSorted(_, _, _)
InsertSorted(sorted, f, sortOrder) ==
    IF sorted = <<>> THEN <<f>>
    ELSE IF Compare(sorted[Len(sorted)], f, sortOrder) <= 0
         THEN Append(sorted, f)
         ELSE Append(InsertSorted(SubSeq(sorted, 1, Len(sorted) - 1), f, sortOrder),
                     sorted[Len(sorted)])

RECURSIVE SortFiles(_, _)
SortFiles(rawFiles, sortOrder) ==
    IF rawFiles = <<>> THEN <<>>
    ELSE InsertSorted(SortFiles(SubSeq(rawFiles, 1, Len(rawFiles) - 1), sortOrder),
                      rawFiles[Len(rawFiles)], sortOrder)

\* manga mode (the initial appMode): every file is one chunk, one page per chunk;
\* ids are random strings, modelled as distinct
NewPages(fileList, sortOrder) ==
    LET rawFiles == SortFiles(fileList, sortOrder)
    IN  [i \in DOMAIN rawFiles |-> NewPage(i, rawFiles[i])]

\* the uploads explored: two files, page 1.png a flat gutter page
Upload(n) == [i \in 1..n |-> [number |-> i, image |-> IF i = 1 THEN "flat" ELSE "art"]]

FileLists == {Upload(2)}

\* one file more than the concurrency ceiling
PoolFileLists == {Upload(CONCURRENCY_LIMIT + 1)}

\* ------------------------------------------------------------ Main Scheduler
\* bug: a failed page keeps its slot
ActiveCountWithErrors(ps) ==
    Len(SelectSeq(ps, LAMBDA p : p.status \in {"processing", "error"}))

ActiveCount(ps) == Len(SelectSeq(ps, LAMBDA p : p.status = "processing"))

PendingPages(ps) == SelectSeq(ps, LAMBDA p : p.status = "pending")

\* bug: the pages already processing are not subtracted
ConcurrencySlotsIgnoringActive(ps) == CONCURRENCY_LIMIT

ConcurrencySlots(ps) == CONCURRENCY_LIMIT - ActiveCount(ps)

\* bug: the window is taken in seconds
ValidHistorySeconds(history, t) == SelectSeq(history, LAMBDA x : t - x < 60)

\* bug: expired entries are counted
ValidHistoryUnfiltered(history, t) == history

ValidHistory(history, t) == SelectSeq(history, LAMBDA x : t - x < WINDOW_MS)

\* bug: the rate budget is never exhausted
RpmSlotsUnlimited(history, t) == RPM_LIMIT

RpmSlots(history, t) == RPM_LIMIT - Len(ValidHistory(history, t))

\* bug: once both budgets have room every pending page is started
ToStartCountAllPending(ps, history, t) ==
    IF Len(PendingPages(ps)) = 0 THEN 0
    ELSE IF ConcurrencySlots(ps) <= 0 THEN 0
    ELSE IF RpmSlots(history, t) <= 0 THEN 0
    ELSE Len(PendingPages(ps))

\* 0 stands for each of the early returns of the effect
ToStartCount(ps, history, t) ==
    IF Len(PendingPages(ps)) = 0 THEN 0
    ELSE IF ConcurrencySlots(ps) <= 0 THEN 0
    ELSE IF RpmSlots(history, t) <= 0 THEN 0
    ELSE Min2(Len(PendingPages(ps)), Min2(ConcurrencySlots(ps), RpmSlots(history, t)))

\* bug: the slice is taken from the end of the pending list
PagesToStartFromEnd(ps, history, t) ==
    SubSeq(PendingPages(ps),
           Len(PendingPages(ps)) - ToStartCount(ps, history, t) + 1,
           Len(PendingPages(ps)))

PagesToStart(ps, history, t) ==
    SubSeq(PendingPages(ps), 1, ToStartCount(ps, history, t))

\* bug: one timestamp per tick instead of one per page
NewTimestampsOne(toStartCount, t) == <<t>>

NewTimestamps(toStartCount, t) == [i \in 1..toStartCount |-> t]

\* bug: the status update is forgotten
MarkProcessingNone(prev, pagesToStart) == prev

\* setPages(prev => prev.map(p => pagesToStart.find(...) ? processing : p))
MarkProcessing(prev, pagesToStart) ==
    [i \in DOMAIN prev |-> LET p == prev[i] IN
        IF \E j \in DOMAIN pagesToStart : pagesToStart[j].id = p.id
        THEN [p EXCEPT !.status = "processing"]
        ELSE p]

\* bug: processPage is called twice for each page
DispatchTwice(cs, pagesToStart) ==
    [id \in DOMAIN cs |->
        [cs[id] EXCEPT !.fresh = @ +
            2 * Cardinality({j \in DOMAIN pagesToStart : pagesToStart[j].id = id})]]

\* pagesToStart.forEach(page => processPage(page))
Dispatch(cs, pagesToStart) ==
    [id \in DOMAIN cs |->
        [cs[id] EXCEPT !.fresh = @ +
            Cardinality({j \in DOMAIN pagesToStart : pagesToStart[j].id = id})]]

\* the k-th new timestamp is recorded for the k-th page of pagesToStart
StampCount(ss, pagesToStart, newTimestamps) ==
    [id \in DOMAIN ss |->
        ss[id] + Cardinality({j \in DOMAIN pagesToStart \cap DOMAIN newTimestamps :
                                pagesToStart[j].id = id})]

DispatchCount(ds, pagesToStart) ==
    [id \in DOMAIN ds |->
        ds[id] + Cardinality({j \in DOMAIN pagesToStart : pagesToStart[j].id = id})]

\* ---------------------------------------------------------------- processPage
\* what translateMangaPage resolves with for a file
TranslatedUrl(file) ==
    IF ~isComplexImage(file) THEN OriginalDataUrl(file) ELSE GeneratedDataUrl

\* bug: the result is not stored
ApplySuccessWithoutUrl(prev, id, url) ==
    [i \in DOMAIN prev |-> LET p == prev[i] IN
        IF p.id = id THEN [p EXCEPT !.status = "completed"] ELSE p]

ApplySuccess(prev, id, url) ==
    [i \in DOMAIN prev |-> LET p == prev[i] IN
        IF p.id = id THEN [p EXCEPT !.status = "completed", !.translatedUrl = url]
        ELSE p]

\* bug: the id comparison is missing
ApplyFailureAll(prev, id) == [i \in DOMAIN prev |-> LET p == prev[i] IN [p EXCEPT !.status = "error"]]

ApplyFailure(prev, id) ==
    [i \in DOMAIN prev |-> LET p == prev[i] IN
        IF p.id = id THEN [p EXCEPT !.status = "error"] ELSE p]

\* ------------------------------------------------------------ handleRegenerate
\* bug: the old result is kept
ApplyRegenerateKeepResult(prev, pageId) ==
    [i \in DOMAIN prev |-> LET p == prev[i] IN
        IF p.id = pageId THEN [p EXCEPT !.status = "pending"] ELSE p]

\* bug: the regenerated page is put back at the end of the collection
ApplyRegenerateMovedToEnd(prev, pageId) ==
    SelectSeq(prev, LAMBDA p : p.id # pageId)
        \o [i \in DOMAIN SelectSeq(prev, LAMBDA p : p.id = pageId) |->
               [SelectSeq(prev, LAMBDA p : p.id = pageId)[i] EXCEPT
                   !.status = "pending", !.translatedUrl = NullUrl]]

ApplyRegenerate(prev, pageId) ==
    [i \in DOMAIN prev |-> LET p == prev[i] IN
        IF p.id = pageId
        THEN [p EXCEPT !.status = "pending", !.translatedUrl = NullUrl]
        ELSE p]

\* bug: the button is also offered while the page is processing
RegenerateButtonWhileProcessing(p) == p.status # "pending"

\* MangaReader renders a regenerate button for a page in exactly these cases
RegenerateButton(p) ==
    \/ p.status = "completed" /\ p.translatedUrl # NullUrl
    \/ p.status = "error"

\* ------------------------------------------------------------ rate log cleanup
\* bug: the interval never replaces the log
CompactedNever(prev, t) == prev

Compacted(prev, t) ==
    LET filtered == SelectSeq(prev, LAMBDA x : t - x < WINDOW_MS)
    IN  IF Len(filtered) # Len(prev) THEN filtered ELSE prev

\* --------------------------------------------------------------------- bounds
AdmissionCap ==
    IF Len(pages) > CONCURRENCY_LIMIT THEN Len(pages) + PoolRegenerations
    ELSE MaxAdmissions

\* a state update is queued: it asks for a render, and it counts as queued behind
\* the pending effect if there is one
QueueUpdate ==
    /\ effectDue => queued < MaxQueued
    /\ renderDue' = TRUE
    /\ queued' = IF effectDue THEN queued + 1 ELSE queued
    /\ UNCHANGED <<effectDue, rHasKey, rPages, rHistory>>

\* ----------------------------------------------------------------------- Init
\* the state after mount: the first render has happened, its effect is due
Init ==
    /\ hasKey = FALSE
    /\ pages = <<>>
    /\ requestHistory = <<>>
    /\ renderDue = FALSE
    /\ effectDue = TRUE
    /\ queued = 0
    /\ rHasKey = FALSE
    /\ rPages = <<>>
    /\ rHistory = <<>>
    /\ now = 0
    /\ calls = <<>>
    /\ dispatched = <<>>
    /\ stamped = <<>>
    /\ appended = 0
    /\ admissions = <<>>
    /\ prep = [phase |-> "idle", isPreparing |-> FALSE]
    /\ split = [phase |-> "idle"]
    /\ scan = [phase |-> "idle"]

\* -------------------------------------------------------------------- actions
\* ApiKeySelector calls onKeySelected: setHasKey(true)
KeySelected ==
    /\ ~hasKey
    /\ hasKey' = TRUE
    /\ QueueUpdate
    /\ UNCHANGED <<prep, split, scan, pages, requestHistory, now, calls, ghosts>>

\* the FileUploader is rendered only while the collection is empty
FilesSelected(fileList) ==
    /\ Len(pages) = 0
    /\ pages' = NewPages(fileList, "desc")
    /\ QueueUpdate
    /\ calls' = [i \in 1..Len(fileList) |-> [fresh |-> 0, stale |-> 0]]
    /\ dispatched' = [i \in 1..Len(fileList) |-> 0]
    /\ stamped' = [i \in 1..Len(fileList) |-> 0]
    /\ UNCHANGED <<prep, split, scan, hasKey, requestHistory, now, appended, admissions>>

\* React renders the queued state updates; the scheduler effect of the previous
\* render is flushed before, and the changed dependency schedules the effect again
Render ==
    /\ renderDue
    /\ ~effectDue
    /\ renderDue' = FALSE
    /\ effectDue' = TRUE
    /\ queued' = 0
    /\ rHasKey' = hasKey
    /\ rPages' = pages
    /\ rHistory' = requestHistory
    /\ UNCHANGED <<prep, split, scan, hasKey, pages, requestHistory, now, calls, ghosts>>

\* bug: the effect never returns for want of a key
ReturnsWithoutKeyNever(key) == FALSE

\* if (!hasKey) return;
ReturnsWithoutKey(key) == ~key

\* the Main Scheduler effect, run on the values its render captured
Scheduler ==
    /\ effectDue
    /\ effectDue' = FALSE
    /\ queued' = 0
    /\ rHasKey' = FALSE
    /\ rPages' = <<>>
    /\ rHistory' = <<>>
    /\ IF ReturnsWithoutKey(rHasKey)
       THEN UNCHANGED <<pages, requestHistory, renderDue, calls, ghosts>>
       ELSE LET pagesToStart == PagesToStart(rPages, rHistory, now)
                toStartCount == Len(pagesToStart)
            IN  IF toStartCount > 0
                THEN /\ requestHistory' = requestHistory \o NewTimestamps(toStartCount, now)
                     /\ pages' = MarkProcessing(pages, pagesToStart)
                     /\ renderDue' = TRUE
                     /\ calls' = Dispatch(calls, pagesToStart)
                     /\ dispatched' = DispatchCount(dispatched, pagesToStart)
                     /\ stamped' = StampCount(stamped, pagesToStart,
                                               NewTimestamps(toStartCount, now))
                     /\ appended' = appended + Len(requestHistory') - Len(requestHistory)
                     /\ admissions' = admissions \o
                            [k \in 1..Cardinality({i \in DOMAIN pages :
                                        /\ pages[i].status = "pending"
                                        /\ pages'[i].status = "processing"}) |-> now]
                ELSE UNCHANGED <<pages, requestHistory, renderDue, calls, ghosts>>
    /\ UNCHANGED <<prep, split, scan, hasKey, now>>

\* a processPage call settles: kind says whether it was dispatched after ("fresh")
\* or before ("stale") the last regenerate of its page
Unresolved(id, kind) == IF kind = "fresh" THEN calls[id].fresh ELSE calls[id].stale

Settle(id, kind) ==
    [calls EXCEPT ![id] = IF kind = "fresh" THEN [@ EXCEPT !.fresh = @ - 1]
                                             ELSE [@ EXCEPT !.stale = @ - 1]]

\* page.originalFile of the page object the call was started with
FileOf(id) == pages[CHOOSE i \in DOMAIN pages : pages[i].id = id].originalFile

\* getImageDimensions resolves from i.onload and has no onerror: for bytes the
\* browser cannot decode its promise, and with it the call of processPage, is
\* never settled.  fileToBase64 reads the bytes of such a file all the same.
Loads(file) == file # "corrupt"

ProcessPageSuccess(id, kind) ==
    /\ Unresolved(id, kind) > 0
    /\ Loads(FileOf(id))
    /\ calls' = Settle(id, kind)
    /\ pages' = ApplySuccess(pages, id, TranslatedUrl(FileOf(id)))
    /\ QueueUpdate
    /\ UNCHANGED <<prep, split, scan, hasKey, requestHistory, now, ghosts>>

ProcessPageFailure(id, kind) ==
    /\ Unresolved(id, kind) > 0
    /\ Loads(FileOf(id))
    /\ calls' = Settle(id, kind)
    /\ pages' = ApplyFailure(pages, id)
    /\ QueueUpdate
    /\ UNCHANGED <<prep, split, scan, hasKey, requestHistory, now, ghosts>>

\* a click on the regenerate button of page i.  The button exists only while
\* RegenerateButton holds of the page; the click may arrive as soon as the state
\* shows it.  Runs are cut off once AdmissionCap admissions are spoken for.
Regenerate(i) ==
    /\ RegenerateButton(pages[i])
    /\ Len(admissions) + CountStatus(pages, "pending") + 1 <= AdmissionCap
    /\ pages' = ApplyRegenerate(pages, pages[i].id)
    /\ QueueUpdate
    /\ calls' = [calls EXCEPT ![pages[i].id] =
                    [fresh |-> 0, stale |-> @.stale + @.fresh]]
    /\ dispatched' = [dispatched EXCEPT ![pages[i].id] = 0]
    /\ stamped' = [stamped EXCEPT ![pages[i].id] = 0]
    /\ UNCHANGED <<prep, split, scan, hasKey, requestHistory, now, appended, admissions>>

\* the one-second interval that drops expired timestamps
CleanupInterval ==
    /\ requestHistory' = Compacted(requestHistory, now)
    /\ IF requestHistory' # requestHistory THEN QueueUpdate ELSE UNCHANGED view
    /\ UNCHANGED <<prep, split, scan, hasKey, pages, now, calls, ghosts>>

\* time passes
Advance(d, maxTime) ==
    /\ now + d <= maxTime
    /\ now' = now + d
    /\ UNCHANGED <<prep, split, scan, hasKey, pages, requestHistory, view, calls, ghosts>>

Next ==
    \/ KeySelected
    \/ \E fileList \in FileLists : FilesSelected(fileList)
    \/ Render
    \/ Scheduler
    \/ \E id \in DOMAIN calls, kind \in {"fresh", "stale"} : ProcessPageSuccess(id, kind)
    \/ \E id \in DOMAIN calls, kind \in {"fresh", "stale"} : ProcessPageFailure(id, kind)
    \/ \E i \in DOMAIN pages : Regenerate(i)
    \/ CleanupInterval
    \/ \E d \in TimeSteps : Advance(d, MaxTime)

\* the runs of a two-file upload: long enough to fill and slide the rate window
Spec == Init /\ [][Next]_vars

NextPool ==
    \/ KeySelected
    \/ \E fileList \in PoolFileLists : FilesSelected(fileList)
    \/ Render
    \/ Scheduler
    \/ \E id \in DOMAIN calls, kind \in {"fresh", "stale"} : ProcessPageSuccess(id, kind)
    \/ \E id \in DOMAIN calls, kind \in {"fresh", "stale"} : ProcessPageFailure(id, kind)
    \/ \E i \in DOMAIN pages : Regenerate(i)
    \/ CleanupInterval
    \/ \E d \in TimeSteps : Advance(d, PoolMaxTime)

\* the runs of an upload larger than the concurrency ceiling
SpecPool == Init /\ [][NextPool]_vars

\* the runs checked for progress: a one-file upload with regenerate requests
\* until the rate window is full, and a six-file upload that fills the 5 slots
LiveFileLists == {Upload(1), Upload(CONCURRENCY_LIMIT + 1)}

LiveTimeSteps == {LiveMaxTime}

NextLive ==
    \/ KeySelected
    \/ \E fileList \in LiveFileLists : FilesSelected(fileList)
    \/ Render
    \/ Scheduler
    \/ \E id \in DOMAIN calls, kind \in {"fresh", "stale"} : ProcessPageSuccess(id, kind)
    \/ \E id \in DOMAIN calls, kind \in {"fresh", "stale"} : ProcessPageFailure(id, kind)
    \/ \E i \in DOMAIN pages :
          /\ now <= LiveRegenerateUntil
          /\ Len(pages) <= CONCURRENCY_LIMIT
          /\ Regenerate(i)
    \/ CleanupInterval
    \/ \E d \in LiveTimeSteps : Advance(d, LiveMaxTime)

\* what happens without the user: React runs the renders and effects it has
\* scheduled, the interval fires, the clock advances, dispatched calls settle
SystemStep ==
    \/ Render
    \/ Scheduler
    \/ CleanupInterval
    \/ \E d \in LiveTimeSteps : Advance(d, LiveMaxTime)
    \/ \E id \in DOMAIN calls, kind \in {"fresh", "stale"} :
          ProcessPageSuccess(id, kind) \/ ProcessPageFailure(id, kind)

\* the system does not stop while one of these steps is possible; no step of
\* the system can be repeated forever, so each of them is eventually taken
Fairness == WF_vars(SystemStep)

SpecLive == Init /\ [][NextLive]_vars /\ Fairness

\* the runs of an upload of two files of which the first cannot be decoded
WorkerFileLists ==
    {<<[number |-> 1, image |-> "corrupt"], [number |-> 2, image |-> "art"]>>}

NextWorker ==
    \/ KeySelected
    \/ \E fileList \in WorkerFileLists : FilesSelected(fileList)
    \/ Render
    \/ Scheduler
    \/ \E id \in DOMAIN calls, kind \in {"fresh", "stale"} : ProcessPageSuccess(id, kind)
    \/ \E id \in DOMAIN calls, kind \in {"fresh", "stale"} : ProcessPageFailure(id, kind)
    \/ \E i \in DOMAIN pages :
          /\ now <= LiveRegenerateUntil
          /\ Regenerate(i)
    \/ CleanupInterval
    \/ \E d \in LiveTimeSteps : Advance(d, LiveMaxTime)

SpecWorker == Init /\ [][NextWorker]_vars /\ Fairness

\* =============================================================== image slicer
\* geminiService.ts: findExactCutInZone and splitLongImage.  Fractions of the
\* hint zones are written as numerators over PercentSteps (1 stands for 0.25);
\* quarters are exact in the doubles the source computes with.
TARGET_CHUNK_HEIGHT == 2500
\* zMid > currentY + 100
ZONE_LOOKAHEAD == 100
\* Math.abs(zoneMid - desiredCutY) < 1800
ZONE_MAX_DISTANCE == 1800
\* desiredCutY - 300, desiredCutY + 300
FALLBACK_RADIUS == 300
\* img.height - 10
BOTTOM_MARGIN == 10
\* if (h < 100) continue
MIN_CHUNK_HEIGHT == 100

PercentSteps == 4
\* the scanner's choices inside the image are followed every ScanStride rows,
\* and at both ends of its range
ScanStride == 200

Abs(x) == IF x < 0 THEN -x ELSE x

Max2(a, b) == IF a >= b THEN a ELSE b

Clamp(x, lo, hi) == Max2(lo, Min2(x, hi))

\* ------------------------------------------------------- findExactCutInZone
\* distFromCenter of row r, times the height of the range
RowBias(r, startY, endY) == Abs(2 * (r - startY) - (endY - startY))

\* row r is found before row q when both carry the best energy score
Beats(r, q, startY, endY) ==
    \/ RowBias(r, startY, endY) < RowBias(q, startY, endY)
    \/ RowBias(r, startY, endY) = RowBias(q, startY, endY) /\ r < q

\* getImageData returns transparent black for the rows outside the canvas: they
\* score energy 0 with the dark bonus, so among them the one nearest to the
\* centre of the range is the best, above and below the image
OutsideCandidates(startY, endY, height) ==
    LET centre == startY + ((endY - startY) \div 2)
    IN  (IF startY < 0
         THEN {Clamp(centre, startY, Min2(endY, 0) - 1)} ELSE {})
        \cup
        (IF endY > height
         THEN {Clamp(centre, Max2(startY, height), endY - 1)} ELSE {})

\* the rows of the image inside the range, every stride rows and at both ends
InsideRows(startY, endY, height, stride) ==
    LET lo == Max2(startY, 0)
        hi == Min2(endY, height) - 1
    IN  IF lo > hi THEN {}
        ELSE {lo, hi} \cup {lo + k * stride : k \in 0..((hi - lo) \div stride)}

\* the rows findExactCutInZone can return for some pixel content: any row of
\* the image can carry the lowest energy, and it is returned unless a row
\* outside the image, which always scores energy 0 with the bonus, is found
\* before it
ScanChoices(startY, endY, height, stride) ==
    IF startY >= endY THEN {startY}
    ELSE LET outside == OutsideCandidates(startY, endY, height)
             inside == InsideRows(startY, endY, height, stride)
         IN  IF outside = {} THEN inside
             ELSE LET bestOut == CHOOSE q \in outside :
                          \A p \in outside \ {q} : Beats(q, p, startY, endY)
                  IN  {bestOut} \cup {r \in inside : Beats(r, bestOut, startY, endY)}

\* ------------------------------------------------------------ getAiSafeZones
Zone(s, e) == [start_percent |-> s, end_percent |-> e]

\* what the zones variable of splitLongImage holds after the call: the parsed
\* list, [] after a caught error, or whatever else JSON.parse returned
getAiSafeZones(hint) ==
    CASE hint.kind = "list" -> [kind |-> "list", zones |-> hint.zones]
      [] hint.kind = "emptyText" -> [kind |-> "list", zones |-> <<>>]
      [] hint.kind \in {"rejects", "unparsable"} -> [kind |-> "list", zones |-> <<>>]
      [] hint.kind \in {"object", "null", "number"} -> [kind |-> hint.kind]

\* ------------------------------------------------------------ splitLongImage
\* bug: the factor 1.2 is left out
IsSingleChunkAtTarget(height) == height <= TARGET_CHUNK_HEIGHT

\* img.height <= TARGET_CHUNK_HEIGHT * 1.2; the product is 3000 in doubles
IsSingleChunk(height) == height * 10 <= TARGET_CHUNK_HEIGHT * 12

\* zMid times 2 * PercentSteps
ZoneMid(z, height) == (z.start_percent + z.end_percent) * height

ValidZones(zones, currentY, height) ==
    SelectSeq(zones, LAMBDA z :
        ZoneMid(z, height) > 2 * PercentSteps * (currentY + ZONE_LOOKAHEAD))

ZoneDist(z, desiredCutY, height) ==
    Abs(ZoneMid(z, height) - 2 * PercentSteps * desiredCutY)

\* bug: the last zone at the smallest distance
BestZoneLastOnTie(validZones, desiredCutY, height) ==
    validZones[CHOOSE i \in DOMAIN validZones :
        \A j \in DOMAIN validZones :
            \/ ZoneDist(validZones[i], desiredCutY, height)
                  < ZoneDist(validZones[j], desiredCutY, height)
            \/ /\ ZoneDist(validZones[i], desiredCutY, height)
                     = ZoneDist(validZones[j], desiredCutY, height)
               /\ i >= j]

\* validZones.reduce(...): the first zone at the smallest distance
BestZone(validZones, desiredCutY, height) ==
    validZones[CHOOSE i \in DOMAIN validZones :
        \A j \in DOMAIN validZones :
            \/ ZoneDist(validZones[i], desiredCutY, height)
                  < ZoneDist(validZones[j], desiredCutY, height)
            \/ /\ ZoneDist(validZones[i], desiredCutY, height)
                     = ZoneDist(validZones[j], desiredCutY, height)
               /\ i <= j]

\* Math.floor(percent * img.height)
ZonePx(percent, height) == (percent * height) \div PercentSteps

\* the range of the scanner call for the hint zone of this iteration, if a zone
\* is near enough
ZoneRange(zones, currentY, height) ==
    LET desiredCutY == currentY + TARGET_CHUNK_HEIGHT
        validZones == ValidZones(zones, currentY, height)
    IN  IF Len(validZones) = 0 THEN <<>>
        ELSE LET bestZone == BestZone(validZones, desiredCutY, height)
             IN  IF ZoneDist(bestZone, desiredCutY, height)
                        < 2 * PercentSteps * ZONE_MAX_DISTANCE
                 THEN <<[startY |-> ZonePx(bestZone.start_percent, height),
                         endY |-> ZonePx(bestZone.end_percent, height)]>>
                 ELSE <<>>

\* bug: the window starts right after the lookahead, not 300 rows before the
\* desired cut
FallbackRangeFromLookahead(currentY, height) ==
    LET desiredCutY == currentY + TARGET_CHUNK_HEIGHT
    IN  [startY |-> currentY + ZONE_LOOKAHEAD,
         endY |-> Min2(height - BOTTOM_MARGIN, desiredCutY + FALLBACK_RADIUS)]

\* bug: the window is not held back from the bottom of the image
FallbackRangeUnclamped(currentY, height) ==
    LET desiredCutY == currentY + TARGET_CHUNK_HEIGHT
    IN  [startY |-> Max2(currentY + ZONE_LOOKAHEAD, desiredCutY - FALLBACK_RADIUS),
         endY |-> desiredCutY + FALLBACK_RADIUS]

FallbackRange(currentY, height) ==
    LET desiredCutY == currentY + TARGET_CHUNK_HEIGHT
    IN  [startY |-> Max2(currentY + ZONE_LOOKAHEAD, desiredCutY - FALLBACK_RADIUS),
         endY |-> Min2(height - BOTTOM_MARGIN, desiredCutY + FALLBACK_RADIUS)]

\* bug: the cut is taken as the scanner returned it
UnguardedCut(cutY, currentY) == cutY

\* if (cutY <= currentY) cutY = currentY + TARGET_CHUNK_HEIGHT
GuardedCut(cutY, currentY) ==
    IF cutY <= currentY THEN currentY + TARGET_CHUNK_HEIGHT ELSE cutY

\* [...new Set(splitPoints)].sort((a, b) => a - b)
RECURSIVE SortedSeq(_)
SortedSeq(S) ==
    IF S = {} THEN <<>>
    ELSE LET least == CHOOSE x \in S : \A y \in S : x <= y
         IN  <<least>> \o SortedSeq(S \ {least})

UniquePoints(splitPoints) == SortedSeq(Range(splitPoints))

\* a file name is its text up to the last suffix that the pattern
\* /(\.[\w\d_-]+)$/ matches, and that suffix, empty when nothing matches
FullName(name) == name.stem \o name.suffix

\* file.name.replace(/(\.[\w\d_-]+)$/i, `_part_${i+1}$1`): a name without a
\* matching suffix is returned as it is
PartName(name, part) ==
    IF name.suffix = "" THEN FullName(name)
    ELSE name.stem \o "_part_" \o ToString(part) \o name.suffix

\* the rows [y1, y2) of the chunks drawn from consecutive cut points; part is
\* i + 1 of the loop over uniquePoints
Chunks(uniquePoints, name) ==
    LET pairs == [i \in 1..(Len(uniquePoints) - 1) |->
                     [part |-> i, y1 |-> uniquePoints[i], y2 |-> uniquePoints[i + 1]]]
        drawn == SelectSeq(pairs, LAMBDA c : ~(c.y2 - c.y1 < MIN_CHUNK_HEIGHT))
    IN  [i \in DOMAIN drawn |->
            [source |-> "canvas", y1 |-> drawn[i].y1, y2 |-> drawn[i].y2,
             name |-> PartName(name, drawn[i].part)]]

\* ----------------------------------------------------- splitLongImage: runs
\* the inputs: image heights around the 3000-row threshold and the heights
\* 5000, 8000 and 12000 with every outcome of the hint source that carries no
\* zone; hint zones are followed on the images up to 5000 rows
Heights == {2500, 3000, 3001, 3200, 5000, 8000, 12000}

ZoneHeights == {h \in Heights : h <= 2 * TARGET_CHUNK_HEIGHT}

Fractions == (-1)..(PercentSteps + 1)

\* every single zone, in range or not, inverted or not, and the lists of two
\* zones inside the image, overlapping and in either order
HintLists ==
    {<<Zone(s, e)>> : s \in Fractions, e \in Fractions}
    \cup {<<Zone(a, b), Zone(c, d)>> : a \in 1..3, b \in 1..3, c \in 1..3, d \in 1..3}

NoZoneHints ==
    {[kind |-> k, zones |-> <<>>] :
        k \in {"list", "emptyText", "rejects", "unparsable", "object", "null", "number"}}

ZoneHints == {[kind |-> "list", zones |-> l] : l \in HintLists}

\* a file name with a suffix the pattern of the part name matches, and one
\* without
FileNames == {[stem |-> "strip", suffix |-> ".png"], [stem |-> "strip", suffix |-> ""]}

SplitInputs ==
    ((Heights \X NoZoneHints) \cup (ZoneHeights \X ZoneHints)) \X FileNames

SplitCall(height, hint, name) ==
    [phase |-> "called", height |-> height, hint |-> hint, name |-> name,
     hintsRequested |-> FALSE, zones |-> [kind |-> "none"],
     currentY |-> 0, splitPoints |-> <<>>, scans |-> <<>>, guarded |-> 0,
     chunks |-> <<>>]

InitSplit ==
    /\ hasKey = FALSE
    /\ pages = <<>>
    /\ requestHistory = <<>>
    /\ renderDue = FALSE
    /\ effectDue = TRUE
    /\ queued = 0
    /\ rHasKey = FALSE
    /\ rPages = <<>>
    /\ rHistory = <<>>
    /\ now = 0
    /\ calls = <<>>
    /\ dispatched = <<>>
    /\ stamped = <<>>
    /\ appended = 0
    /\ admissions = <<>>
    /\ prep = [phase |-> "idle", isPreparing |-> FALSE]
    /\ scan = [phase |-> "idle"]
    /\ \E input \in SplitInputs : split = SplitCall(input[1][1], input[1][2], input[2])

\* img.onload up to the threshold test
OnLoad ==
    /\ split.phase = "called"
    /\ split' = IF IsSingleChunk(split.height)
                THEN [split EXCEPT !.phase = "resolved",
                        !.chunks = <<[source |-> "file", y1 |-> 0, y2 |-> split.height,
                                      name |-> FullName(split.name)]>>]
                ELSE [split EXCEPT !.phase = "hints"]
    /\ UNCHANGED <<app, prep, scan>>

\* const zones = await getAiSafeZones(...); console.log(zones.length) throws on
\* null, and the promise of splitLongImage is then never settled
RequestHints ==
    /\ split.phase = "hints"
    /\ LET zones == getAiSafeZones(split.hint)
       IN  split' = [split EXCEPT
                        !.hintsRequested = TRUE,
                        !.zones = zones,
                        !.phase = IF zones.kind = "null" THEN "unresolved" ELSE "slicing",
                        !.splitPoints = IF zones.kind = "null" THEN <<>> ELSE <<0>>]
    /\ UNCHANGED <<app, prep, scan>>

\* the scanner is a function of the canvas and the range: a range it has
\* already been run on gives the row it gave before
ScanResults(scans, range, height) ==
    LET prior == {i \in DOMAIN scans :
                     scans[i].startY = range.startY /\ scans[i].endY = range.endY}
    IN  IF prior = {}
        THEN ScanChoices(range.startY, range.endY, height, ScanStride)
        ELSE {scans[CHOOSE i \in prior : TRUE].cutY}

ScanRecord(from, currentY, range, cutY) ==
    [from |-> from, currentY |-> currentY,
     startY |-> range.startY, endY |-> range.endY, cutY |-> cutY]

LoopContinues ==
    /\ split.currentY < split.height
    /\ ~(split.currentY + TARGET_CHUNK_HEIGHT >= split.height)

\* one iteration of the while loop; zones.filter throws unless zones is a list
SliceStep ==
    /\ split.phase = "slicing"
    /\ LoopContinues
    /\ IF split.zones.kind # "list"
       THEN split' = [split EXCEPT !.phase = "unresolved"]
       ELSE LET zoneRange == ZoneRange(split.zones.zones, split.currentY, split.height)
                fallback == FallbackRange(split.currentY, split.height)
                zoneCuts == IF zoneRange = <<>> THEN {-1}
                            ELSE ScanResults(split.scans, zoneRange[1], split.height)
            IN  \E zoneCut \in zoneCuts :
                LET zoneScans ==
                        IF zoneRange = <<>> THEN <<>>
                        ELSE <<ScanRecord("zone", split.currentY, zoneRange[1], zoneCut)>>
                IN
                \E fallbackCut \in IF zoneCut = -1
                                   THEN ScanResults(split.scans \o zoneScans, fallback,
                                                    split.height)
                                   ELSE {zoneCut} :
                    LET cutY == GuardedCut(fallbackCut, split.currentY)
                    IN  split' = [split EXCEPT
                            !.scans = @ \o zoneScans
                                        \o (IF zoneCut = -1
                                            THEN <<ScanRecord("fallback", split.currentY,
                                                              fallback, fallbackCut)>>
                                            ELSE <<>>),
                            !.guarded = IF fallbackCut <= split.currentY THEN @ + 1 ELSE @,
                            !.splitPoints = Append(@, cutY),
                            !.currentY = cutY]
    /\ UNCHANGED <<app, prep, scan>>

\* after the loop: the last cut point, the unique sorted points, the chunks
Finish ==
    /\ split.phase = "slicing"
    /\ ~LoopContinues
    /\ split' = [split EXCEPT
                    !.phase = "resolved",
                    !.splitPoints = Append(@, split.height),
                    !.chunks = Chunks(UniquePoints(Append(split.splitPoints, split.height)),
                                      split.name)]
    /\ UNCHANGED <<app, prep, scan>>

NextSplit ==
    \/ OnLoad
    \/ RequestHints
    \/ SliceStep
    \/ Finish

SpecSplit == InitSplit /\ [][NextSplit]_vars

\* ------------------------------------------- findExactCutInZone on pixel data
\* the canvases the scanner is run on pixel by pixel: ScanCanvasHeight rows of
\* one to four grey pixels, each black or white
ScanCanvasHeight == 2

ScanWidths == 1..4

GreyLevels == {0, 255}

STRIDE == 2

\* imgData.data of getImageData(0, startY, width, endY - startY): four bytes
\* per pixel, row after row; pixels outside the canvas are transparent black.
\* An index outside the array reads as undefined (InData is false of it, and
\* the sums it enters are NaN).
DataLength(sc) == sc.width * (sc.endY - sc.startY) * 4

InData(sc, index) == 0 <= index /\ index < DataLength(sc)

DataAt(sc, index) ==
    IF ~InData(sc, index) THEN 0
    ELSE LET pixel == index \div 4
             channel == index % 4
             row == sc.startY + (pixel \div sc.width)
             col == pixel % sc.width
         IN  IF row < 0 \/ row >= ScanCanvasHeight THEN 0
             ELSE IF channel = 3 THEN 255
             ELSE sc.pixels[row + 1][col + 1]

\* the values of x the loop of calculateRowEnergy goes through
RowXs(width) == {x \in 0..(width - STRIDE - 1) : x % STRIDE = 0}

\* the indices into data that calculateRowEnergy(data, width, y) reads
RowReads(width, y) ==
    UNION {{(y * width * 4) + (x * 4) + c : c \in 0..2}
           \cup {(y * width * 4) + ((x + STRIDE) * 4) + c : c \in 0..2} : x \in RowXs(width)}

\* the for loop of calculateRowEnergy from x on: diffSum, and brightnessSum
\* times three
RECURSIVE RowLoop(_, _, _)
RowLoop(sc, y, x) ==
    IF ~(x < sc.width - STRIDE) THEN [diffSum |-> 0, brightnessSum3 |-> 0]
    ELSE LET i == (y * sc.width * 4) + (x * 4)
             nextI == (y * sc.width * 4) + ((x + STRIDE) * 4)
             rest == RowLoop(sc, y, x + STRIDE)
         IN  [diffSum |-> Abs(DataAt(sc, i) - DataAt(sc, nextI))
                          + Abs(DataAt(sc, i + 1) - DataAt(sc, nextI + 1))
                          + Abs(DataAt(sc, i + 2) - DataAt(sc, nextI + 2))
                          + rest.diffSum,
              brightnessSum3 |-> DataAt(sc, i) + DataAt(sc, i + 1) + DataAt(sc, i + 2)
                                 + rest.brightnessSum3]

DiffSum(sc, y) == RowLoop(sc, y, 0).diffSum

BrightnessSum3(sc, y) == RowLoop(sc, y, 0).brightnessSum3

\* Math.ceil(width / STRIDE)
RowCount(width) == (width + STRIDE - 1) \div STRIDE

\* a row whose reads include undefined has a NaN score and is never the best
RowIsNumber(sc, y) == \A index \in RowReads(sc.width, y) : InData(sc, index)

\* score of row y times 2 * height * count:
\* energy - 30 (if brightness > 240 or < 20) + distFromCenter * 0.5
Score(sc, y) ==
    LET height == sc.endY - sc.startY
        count == RowCount(sc.width)
        sums == RowLoop(sc, y, 0)
        bonus == \/ sums.brightnessSum3 > 3 * 240 * count
                 \/ sums.brightnessSum3 < 3 * 20 * count
    IN  (2 * height * sums.diffSum)
        - (IF bonus THEN 30 * 2 * height * count ELSE 0)
        + (Abs(2 * y - height) * count)

\* bug: score <= minEnergy, the last row of the lowest score
BestYLastOnTie(sc) ==
    LET rows == {y \in 0..(sc.endY - sc.startY - 1) : RowIsNumber(sc, y)}
    IN  IF rows = {} THEN -1
        ELSE CHOOSE y \in rows :
                \A z \in rows : \/ Score(sc, y) < Score(sc, z)
                                \/ Score(sc, y) = Score(sc, z) /\ y >= z

\* the loop over y with score < minEnergy: the first row of the lowest score,
\* -1 if no row has a score below Infinity
BestY(sc) ==
    LET rows == {y \in 0..(sc.endY - sc.startY - 1) : RowIsNumber(sc, y)}
        score == [y \in rows |-> Score(sc, y)]
    IN  IF rows = {} THEN -1
        ELSE CHOOSE y \in rows :
                \A z \in rows : \/ score[y] < score[z]
                                \/ score[y] = score[z] /\ y <= z

\* bug: the offset of the range is not added back
findExactCutWithoutOffset(sc) ==
    IF sc.startY >= sc.endY THEN sc.startY ELSE BestY(sc)

findExactCutInZone(sc) ==
    IF sc.startY >= sc.endY THEN sc.startY ELSE sc.startY + BestY(sc)

\* the rows of the canvas whose bytes calculateRowEnergy has read
RowsRead(sc) ==
    IF sc.startY >= sc.endY THEN {}
    ELSE {sc.startY + ((index \div 4) \div sc.width) :
            index \in UNION {RowReads(sc.width, y) : y \in 0..(sc.endY - sc.startY - 1)}}

Canvases(width) == [1..ScanCanvasHeight -> [1..width -> GreyLevels]]

ScanRows == (-1)..(ScanCanvasHeight + 1)

ScanCalls ==
    UNION {[phase : {"called"}, width : {width}, pixels : Canvases(width),
            startY : ScanRows, endY : ScanRows, result : {0}, reads : {{}}] :
           width \in ScanWidths}

InitScan ==
    /\ hasKey = FALSE
    /\ pages = <<>>
    /\ requestHistory = <<>>
    /\ renderDue = FALSE
    /\ effectDue = TRUE
    /\ queued = 0
    /\ rHasKey = FALSE
    /\ rPages = <<>>
    /\ rHistory = <<>>
    /\ now = 0
    /\ calls = <<>>
    /\ dispatched = <<>>
    /\ stamped = <<>>
    /\ appended = 0
    /\ admissions = <<>>
    /\ prep = [phase |-> "idle", isPreparing |-> FALSE]
    /\ split = [phase |-> "idle"]
    /\ scan \in ScanCalls

ScanReturns ==
    /\ scan.phase = "called"
    /\ scan' = [scan EXCEPT !.phase = "returned",
                            !.result = findExactCutInZone(scan),
                            !.reads = RowsRead(scan)]
    /\ UNCHANGED <<app, prep, split>>

NextScan == ScanReturns

SpecScan == InitScan /\ [][NextScan]_vars

\* ---------------------------------------------------------------------------
\* handleFilesSelected in manhwa mode: the preparation of an upload
\* ---------------------------------------------------------------------------

\* files per upload and chunks per sliced file explored
MaxPrepFiles == 2
MaxChunks == 2

\* how the promise of splitLongImage(file) ends: resolve([file]) for a short
\* image (chunks = 1) or resolve(chunks) after slicing; reject from img.onerror
\* or for want of a canvas context; neither when an exception leaves the async
\* executor or the async onload handler (fileToBase64 rejecting, the read of
\* zones.length or the call of zones.filter throwing)
SliceOutcomes ==
    {[kind |-> "resolves", chunks |-> k] : k \in 1..MaxChunks}
        \cup {[kind |-> "rejects", chunks |-> 0], [kind |-> "never", chunks |-> 0]}

PrepFiles == [number : 1..MaxPrepFiles, slicing : SliceOutcomes]

PrepFileLists == UNION {[1..n -> PrepFiles] : n \in 1..MaxPrepFiles}

SortOrders == {"asc", "desc"}

\* the file itself (part 0) or the chunk File number part cut from it
WholeFile(file) == [of |-> file.number, part |-> 0]
ChunkFile(file, part) == [of |-> file.number, part |-> part]

\* the chunks array a resolved splitLongImage(file) hands back, in its order
ChunksOf(file) ==
    IF file.slicing.chunks = 1 THEN <<WholeFile(file)>>
    ELSE [k \in 1..file.slicing.chunks |-> ChunkFile(file, k)]

\* newPages.push({...}) of either branch; the id is set when pages are stored
PreparedPage(file, chunkFile) ==
    [id |-> 0, originalFile |-> chunkFile, pageNumber |-> file.number,
     status |-> "pending", translatedUrl |-> NullUrl]

\* chunks.forEach((chunkFile) => newPages.push(...))
PushChunks(newPages, file) ==
    newPages \o [k \in DOMAIN ChunksOf(file) |-> PreparedPage(file, ChunksOf(file)[k])]

\* catch (err): the whole file becomes one page
PushWhole(newPages, file) == Append(newPages, PreparedPage(file, WholeFile(file)))

\* the random ids, modelled as distinct
WithIds(newPages) == [i \in DOMAIN newPages |-> [newPages[i] EXCEPT !.id = i]]

\* resetSessionMemory(); setIsPreparing(true); rawFiles.sort(...); newPages = []
PrepareStart(fileList, sortOrder) ==
    /\ prep.phase = "idle"
    /\ Len(pages) = 0
    /\ prep' = [phase |-> "preparing", isPreparing |-> TRUE,
                sortOrder |-> sortOrder, rawFiles |-> SortFiles(fileList, sortOrder),
                file |-> 1, newPages |-> <<>>]
    /\ UNCHANGED <<app, split, scan>>

\* try: chunks = await splitLongImage(file) resolved; the loop moves on
SliceResolved ==
    /\ prep.phase = "preparing"
    /\ prep.file <= Len(prep.rawFiles)
    /\ prep.rawFiles[prep.file].slicing.kind = "resolves"
    /\ prep' = [prep EXCEPT !.newPages = PushChunks(prep.newPages, prep.rawFiles[prep.file]),
                            !.file = prep.file + 1]
    /\ UNCHANGED <<app, split, scan>>

\* catch: the awaited promise rejected
SliceRejected ==
    /\ prep.phase = "preparing"
    /\ prep.file <= Len(prep.rawFiles)
    /\ prep.rawFiles[prep.file].slicing.kind = "rejects"
    /\ prep' = [prep EXCEPT !.newPages = PushWhole(prep.newPages, prep.rawFiles[prep.file]),
                            !.file = prep.file + 1]
    /\ UNCHANGED <<app, split, scan>>

\* after the loop: setPages(newPages); setIsPreparing(false)
PrepareFinish ==
    /\ prep.phase = "preparing"
    /\ prep.file > Len(prep.rawFiles)
    /\ pages' = WithIds(prep.newPages)
    /\ QueueUpdate
    /\ calls' = [i \in DOMAIN prep.newPages |-> [fresh |-> 0, stale |-> 0]]
    /\ dispatched' = [i \in DOMAIN prep.newPages |-> 0]
    /\ stamped' = [i \in DOMAIN prep.newPages |-> 0]
    /\ prep' = [prep EXCEPT !.phase = "done", !.isPreparing = FALSE]
    /\ UNCHANGED <<split, scan, hasKey, requestHistory, now, appended, admissions>>

\* the steps the browser takes by itself once the upload was handed over
PrepareStep == SliceResolved \/ SliceRejected \/ PrepareFinish

NextPrepare ==
    \/ \E fileList \in PrepFileLists, sortOrder \in SortOrders :
          PrepareStart(fileList, sortOrder)
    \/ SliceResolved
    \/ SliceRejected
    \/ PrepareFinish

SpecPrepare == Init /\ [][NextPrepare]_vars /\ WF_vars(PrepareStep)

\* ===================================================================== claims
Quiescent == hasKey /\ ~renderDue /\ ~effectDue

PageIndex(id) == CHOOSE i \in DOMAIN pages : pages[i].id = id

\* the pages a step moves from pending to processing
Admitted == {i \in DOMAIN pages : /\ pages[i].status = "pending"
                                  /\ i \in DOMAIN pages'
                                  /\ pages'[i].status = "processing"}

\* C1: in every reachable state at most CONCURRENCY_LIMIT = 5 pages are
\* 'processing' (upload of 6 files, any interleaving of ticks, resolutions,
\* regenerate requests and compactions).
ConcurrencyCeiling == CountStatus(pages, "processing") <= CONCURRENCY_LIMIT

\* the ceiling is full, a page waits, and the tick that saw this has run
ConcurrencyCeilingWitness ==
    /\ Quiescent
    /\ CountStatus(pages, "processing") = CONCURRENCY_LIMIT
    /\ CountStatus(pages, "pending") >= 1
    /\ Len(admissions) > CONCURRENCY_LIMIT

\* C2: for every time T the number of admissions with timestamp t <= T and
\* T - t < 60000 is at most RPM_LIMIT = 20.  The count changes only at admission
\* times and never grows in between, so T ranges over them and the current time;
\* admissions is the full record, untouched by compaction.
AdmissionsInWindow(T) ==
    Cardinality({k \in DOMAIN admissions :
                    admissions[k] <= T /\ T - admissions[k] < WINDOW_MS})

RateWindowBound ==
    \A T \in Range(admissions) \cup {now} : AdmissionsInWindow(T) <= RPM_LIMIT

\* the window is full after it has slid, an expired entry is still in the log,
\* a page waits and the tick that saw this has run
RateWindowBoundWitness ==
    /\ Quiescent
    /\ AdmissionsInWindow(now) = RPM_LIMIT
    /\ Len(admissions) > RPM_LIMIT
    /\ Len(requestHistory) > RPM_LIMIT
    /\ CountStatus(pages, "pending") >= 1

\* C3 as stated: no page is moved to processing while a page that precedes it
\* in the collection is pending and stays pending.
StrictFifo ==
    [][\A i \in Admitted : \A j \in 1..(i - 1) :
          ~(pages[j].status = "pending" /\ pages'[j].status = "pending")]_vars

\* C3 amended: the pages a tick admits are exactly a prefix of the pending pages
\* of the collection its render captured, in collection order.
FifoOnCapturedPages ==
    [][Admitted # {} =>
          /\ effectDue
          /\ \E n \in 1..Len(PendingPages(rPages)) :
                {pages[i].id : i \in Admitted} =
                {PendingPages(rPages)[k].id : k \in 1..n}]_vars

\* page 1 was regenerated while pages 2..5 were processing and was admitted
\* again ahead of page 6, which still waits
FifoOnCapturedPagesWitness ==
    /\ Len(pages) = CONCURRENCY_LIMIT + 1
    /\ Len(admissions) = CONCURRENCY_LIMIT + 1
    /\ pages[1].status = "processing"
    /\ pages[CONCURRENCY_LIMIT + 1].status = "pending"

\* C4: between two regenerate requests for a page (or from its creation)
\* processPage is called for it at most once.
NoDoubleDispatch == \A id \in DOMAIN dispatched : dispatched[id] <= 1

\* every page was regenerated and dispatched again
NoDoubleDispatchWitness ==
    /\ Len(pages) > 0
    /\ Len(admissions) >= 2 * Len(pages)
    /\ \A id \in DOMAIN dispatched : dispatched[id] = 1

\* C5: a call dispatched before the last regenerate of its page never changes
\* the page when it settles, and a page becomes completed or error only by the
\* settling of the one call dispatched at its latest admission.
StaleResultProtection ==
    [][\A id \in DOMAIN calls :
          /\ (id \in DOMAIN calls' /\ calls'[id].stale < calls[id].stale)
                => pages' = pages
          /\ (/\ id \in DOMAIN calls'
              /\ pages'[PageIndex(id)] # pages[PageIndex(id)]
              /\ pages'[PageIndex(id)].status \in {"completed", "error"})
                => /\ calls[id].fresh = 1
                   /\ calls'[id].fresh = 0
                   /\ calls'[id].stale = calls[id].stale]_vars

\* a page was regenerated, admitted again, and the new call has settled
StaleResultProtectionWitness ==
    /\ Len(pages) > 0
    /\ Len(admissions) > Len(pages)
    /\ \A i \in DOMAIN pages : pages[i].status = "completed"
    /\ \A id \in DOMAIN calls : calls[id].fresh = 0

\* C6: regenerate on a page that is completed (non-null result) or error leaves
\* it pending with a null result and every other page as it was.
RegenerateResets ==
    [][\A i \in DOMAIN pages : Regenerate(i) =>
          /\ \/ pages[i].status = "completed" /\ pages[i].translatedUrl # NullUrl
             \/ pages[i].status = "error"
          /\ pages'[i].status = "pending"
          /\ pages'[i].translatedUrl = NullUrl
          /\ \A j \in DOMAIN pages \ {i} : pages'[j] = pages[j]]_vars

\* page 1 was regenerated, page 2 kept its result
RegenerateResetsWitness ==
    /\ Len(pages) = 2
    /\ Len(admissions) = 2
    /\ pages[1].status = "pending" /\ pages[1].translatedUrl = NullUrl
    /\ pages[2].status = "completed" /\ pages[2].translatedUrl # NullUrl

\* C7: the only status changes are pending -> processing (by the scheduler),
\* processing -> completed (worker success), processing -> error (worker
\* failure) and completed -> pending, error -> pending (regenerate).
AllowedTransition(i) ==
    LET from == pages[i].status
        to == pages'[i].status
    IN  \/ from = to
        \/ from = "pending" /\ to = "processing" /\ Scheduler
        \/ /\ from = "processing" /\ to = "completed"
           /\ \E kind \in {"fresh", "stale"} : ProcessPageSuccess(pages[i].id, kind)
        \/ /\ from = "processing" /\ to = "error"
           /\ \E kind \in {"fresh", "stale"} : ProcessPageFailure(pages[i].id, kind)
        \/ from \in {"completed", "error"} /\ to = "pending" /\ Regenerate(i)

OnlyValidTransitions ==
    [][\A i \in DOMAIN pages \cap DOMAIN pages' : AllowedTransition(i)]_vars

\* one page has failed, the other was regenerated and runs again
OnlyValidTransitionsWitness ==
    /\ Len(pages) = 2
    /\ Len(admissions) = 3
    /\ pages[1].status = "error"
    /\ pages[2].status = "processing"

\* C8: the number of timestamps ever appended to the rate log equals the number
\* of pending -> processing transitions, and a page has a timestamp recorded for
\* its current attempt exactly if it has left pending.
TimestampsPairedWithAdmissions ==
    /\ appended = Len(admissions)
    /\ \A i \in DOMAIN pages :
          stamped[pages[i].id] = IF pages[i].status = "pending" THEN 0 ELSE 1

\* several admissions, one of them partial, and the log has been compacted
TimestampsPairedWithAdmissionsWitness ==
    /\ appended > Len(pages)
    /\ Len(requestHistory) < appended
    /\ CountStatus(pages, "processing") = 1
    /\ CountStatus(pages, "pending") = 1

\* C9: a failing worker call makes its page error and changes no other page; an
\* error page changes only by regenerate; and a tick whose captured collection
\* holds an error page still admits when a page is pending and both budgets
\* have room.
WorkerFailureContained ==
    [][/\ \A id \in DOMAIN calls, kind \in {"fresh", "stale"} :
             ProcessPageFailure(id, kind) =>
                /\ pages'[PageIndex(id)].status = "error"
                /\ \A j \in DOMAIN pages \ {PageIndex(id)} : pages'[j] = pages[j]
       /\ \A i \in DOMAIN pages \cap DOMAIN pages' :
             (pages[i].status = "error" /\ pages'[i] # pages[i]) => Regenerate(i)
       /\ (/\ Scheduler
           /\ rHasKey
           /\ \E i \in DOMAIN rPages : rPages[i].status = "error"
           /\ \E i \in DOMAIN rPages : rPages[i].status = "pending"
           /\ Cardinality({i \in DOMAIN rPages : rPages[i].status = "processing"})
                 < CONCURRENCY_LIMIT
           /\ Cardinality({k \in DOMAIN rHistory : now - rHistory[k] < WINDOW_MS})
                 < RPM_LIMIT)
             => Admitted # {}]_vars

\* page 1 failed, and the slot it gave up went to page 6
WorkerFailureContainedWitness ==
    /\ Len(pages) = CONCURRENCY_LIMIT + 1
    /\ pages[1].status = "error"
    /\ \A i \in 2..(CONCURRENCY_LIMIT + 1) : pages[i].status = "processing"

\* C10 as stated: a page the complexity pre-filter rejects reaches completed
\* without a rate-log timestamp and without holding a concurrency slot.
SyntheticCompletionOutsideBudgets ==
    \A i \in DOMAIN pages :
        ~isComplexImage(pages[i].originalFile) =>
            /\ pages[i].status # "processing"
            /\ stamped[pages[i].id] = 0

NonDecreasing(s) == \A i, j \in DOMAIN s : i < j => s[i] <= s[j]

CompactionInstants == {t \in Range(admissions) \cup {0, now} : t <= now}

CompactionTransparent ==
    /\ NonDecreasing(requestHistory)
    /\ \A t0 \in CompactionInstants :
          LET compacted == Compacted(requestHistory, t0)
          IN  /\ compacted = SelectSeq(requestHistory, LAMBDA x : t0 - x < WINDOW_MS)
              /\ NonDecreasing(compacted)
              /\ ToStartCount(pages, compacted, now)
                    = ToStartCount(pages, requestHistory, now)
              /\ ToStartCount(rPages, Compacted(rHistory, t0), now)
                    = ToStartCount(rPages, rHistory, now)

\* a tick is due whose captured log holds 20 entries or more, enough of them
\* expired and none compacted, so that it admits
CompactionTransparentWitness ==
    /\ effectDue
    /\ rHasKey
    /\ Len(rHistory) >= RPM_LIMIT
    /\ Len(Compacted(rHistory, now)) < Len(rHistory)
    /\ ToStartCount(rPages, rHistory, now) >= 1

Sliced == split.phase = "resolved" /\ split.height > 3000

StrictlyIncreasing(s) == \A i \in 1..(Len(s) - 1) : s[i] < s[i + 1]

\* C13: for an image of at most 1.2 x 2500 = 3000 rows splitLongImage resolves
\* with exactly one chunk, the input file itself, and neither requests hints
\* nor computes a cut.
ShortImageIsOneChunk ==
    (split.phase # "idle" /\ split.height <= 3000) =>
        /\ split.phase \in {"called", "resolved"}
        /\ split.hintsRequested = FALSE
        /\ split.scans = <<>>
        /\ split.splitPoints = <<>>
        /\ split.phase = "resolved" =>
              split.chunks = <<[source |-> "file", y1 |-> 0, y2 |-> split.height,
                                name |-> FullName(split.name)]>>

\* the call has resolved for an image of exactly 3000 rows
ShortImageIsOneChunkWitness ==
    /\ split.phase = "resolved"
    /\ split.height = 3000
    /\ Len(split.chunks) = 1
    /\ split.chunks[1].source = "file"

\* C14 as stated: for every image taller than 3000 rows and every hint list the
\* final cut sequence is strictly increasing, starts at 0 and ends at the image
\* height.
CutPlanSpansImage ==
    Sliced =>
        LET uniquePoints == UniquePoints(split.splitPoints)
        IN  /\ StrictlyIncreasing(uniquePoints)
            /\ uniquePoints[1] = 0
            /\ uniquePoints[Len(uniquePoints)] = split.height

\* C15 as stated: consecutive rows of the final cut sequence are at least 100
\* rows apart.
CutsMinimumApart ==
    Sliced =>
        LET uniquePoints == UniquePoints(split.splitPoints)
        IN  \A i \in 1..(Len(uniquePoints) - 1) :
                uniquePoints[i + 1] - uniquePoints[i] >= MIN_CHUNK_HEIGHT

\* C16 as stated: with an empty hint list and an image of 3000, 5000 or 12000
\* rows the chunks of the resolved call cover every row 0..height-1.
EmptyHintsCoverEveryRow ==
    (/\ split.phase = "resolved"
     /\ split.hint = [kind |-> "list", zones |-> <<>>]
     /\ split.height \in {3000, 5000, 12000}) =>
        \A row \in 0..(split.height - 1) :
            \E i \in DOMAIN split.chunks :
                split.chunks[i].y1 <= row /\ row < split.chunks[i].y2

\* C17: every cut the loop appends is strictly greater than the position the
\* iteration started from, also when the scanner's result was not; the cut
\* points of the loop are therefore strictly increasing and below
\* height + 2500, so the loop ends, and no chunk has zero height.
ForwardProgress ==
    /\ [](split.phase \in {"slicing", "resolved"} =>
            /\ \A i \in DOMAIN split.chunks : split.chunks[i].y1 < split.chunks[i].y2
            /\ split.currentY < split.height + TARGET_CHUNK_HEIGHT
            /\ split.phase = "slicing" =>
                  /\ StrictlyIncreasing(split.splitPoints)
                  /\ split.splitPoints[Len(split.splitPoints)] = split.currentY)
    /\ [][(split.phase = "slicing" /\ split'.phase = "slicing") =>
            /\ split'.currentY > split.currentY
            /\ split'.splitPoints = Append(split.splitPoints, split'.currentY)]_vars

\* the guard has replaced a scanner result and the call has resolved
ForwardProgressWitness ==
    /\ split.phase = "resolved"
    /\ split.guarded >= 1
    /\ Len(split.chunks) >= 2

\* C18 as stated: after any outcome of the hint source other than a list of
\* zones the call still resolves; it is never left unresolved.
MalformedHintsIgnored ==
    split.hint.kind \in {"rejects", "unparsable", "object", "null", "number"} =>
        split.phase # "unresolved"

\* C19 as stated: every range passed to the scanner lies within
\* [0, image height], so that no row outside 0..height-1 is read and no cut
\* lies outside [0, image height].
ScannerRangesClamped ==
    /\ \A i \in DOMAIN split.scans :
          /\ 0 <= split.scans[i].startY /\ split.scans[i].startY <= split.height
          /\ 0 <= split.scans[i].endY /\ split.scans[i].endY <= split.height
    /\ \A i \in DOMAIN split.splitPoints :
          0 <= split.splitPoints[i] /\ split.splitPoints[i] <= split.height

\* C20: findExactCutInZone(startY, endY) returns startY when startY >= endY,
\* and otherwise a row r with startY <= r < endY, for every width and pixel
\* content; every byte it reads lies inside the image data it fetched and
\* belongs to a row in [startY, endY).  The row returned is one of the rows the
\* slicer runs let the scanner return.
ScannerStaysInRange ==
    scan.phase = "returned" =>
        /\ scan.startY >= scan.endY => scan.result = scan.startY /\ scan.reads = {}
        /\ scan.startY < scan.endY =>
              /\ scan.startY <= scan.result /\ scan.result < scan.endY
              /\ \A y \in 0..(scan.endY - scan.startY - 1) : RowIsNumber(scan, y)
              /\ \A row \in scan.reads : scan.startY <= row /\ row < scan.endY
        /\ scan.result \in ScanChoices(scan.startY, scan.endY, ScanCanvasHeight, 1)

\* the scanner has read both rows of the canvas and returned the first one,
\* away from the centre of the range, because the other row carries an edge
ScannerStaysInRangeWitness ==
    /\ scan.phase = "returned"
    /\ scan.width >= 3
    /\ scan.startY = 0 /\ scan.endY = 2
    /\ scan.result = 0
    /\ scan.reads = {0, 1}

\* C21 as stated: for every image that is split, the row ranges of the emitted
\* chunks, taken in emission order, start at row 0, follow one another without
\* a gap or an overlap and end at the image height, so that each source row
\* 0..height-1 appears exactly once and in its original order
ChunkRangesConcatenateToImage ==
    Sliced =>
        /\ Len(split.chunks) >= 1
        /\ split.chunks[1].y1 = 0
        /\ split.chunks[Len(split.chunks)].y2 = split.height
        /\ \A i \in DOMAIN split.chunks : split.chunks[i].y1 < split.chunks[i].y2
        /\ \A i \in 1..(Len(split.chunks) - 1) :
              split.chunks[i].y2 = split.chunks[i + 1].y1

\* the 8000-row image for which the hint source gave an empty list
EightThousandNoHints ==
    /\ split.phase = "resolved"
    /\ split.height = 8000
    /\ split.zones = [kind |-> "list", zones |-> <<>>]

\* the cuts strictly between row 0 and the image height
InteriorCuts == {c \in Range(split.splitPoints) : 0 < c /\ c < split.height}

\* every chunk that does not end at the bottom of the image is within 300
\* rows of 2500 rows high
ChunksWithinTolerance ==
    \A i \in DOMAIN split.chunks :
        split.chunks[i].y2 # split.height =>
            Abs((split.chunks[i].y2 - split.chunks[i].y1) - TARGET_CHUNK_HEIGHT)
                <= FALLBACK_RADIUS

\* C22 as stated: for an image of 8000 rows without hints the fallback path
\* produces exactly 3 cuts between 0 and 8000 and every chunk but the last is
\* within 300 rows of 2500
FallbackMakesThreeCuts ==
    EightThousandNoHints =>
        /\ Cardinality(InteriorCuts) = 3
        /\ ChunksWithinTolerance

\* C22 amended: for an image of 8000 rows without hints the fallback path
\* produces 3 cuts between 0 and 8000 when the second cut is below row 5500
\* and 2 cuts when it is not; every chunk but the last is within 300 rows of
\* 2500
FallbackMakesTwoOrThreeCuts ==
    EightThousandNoHints =>
        /\ Len(split.splitPoints) >= 4
        /\ Cardinality(InteriorCuts) =
              (IF split.splitPoints[3] + TARGET_CHUNK_HEIGHT < split.height THEN 3 ELSE 2)
        /\ ChunksWithinTolerance

FallbackMakesTwoOrThreeCutsWitness ==
    /\ EightThousandNoHints
    /\ Cardinality(InteriorCuts) = 3
    /\ Len(split.chunks) = 4
    /\ \A i \in DOMAIN split.scans : split.scans[i].from = "fallback"

\* what a tick finds in the values its render captured: the pending pages, the
\* free slots and the room left in the rate window
FoundPending == Cardinality({i \in DOMAIN rPages : rPages[i].status = "pending"})

FoundFreeSlots ==
    CONCURRENCY_LIMIT
        - Cardinality({i \in DOMAIN rPages : rPages[i].status = "processing"})

FoundRateRoom ==
    RPM_LIMIT - Cardinality({k \in DOMAIN rHistory : now - rHistory[k] < WINDOW_MS})

FoundMinimum ==
    LET m == IF FoundPending <= FoundFreeSlots THEN FoundPending ELSE FoundFreeSlots
    IN  IF m <= FoundRateRoom THEN m ELSE FoundRateRoom

\* C23: a tick that finds a pending page, a free slot and room in the rate
\* window admits exactly n = min(pending, 5 - active, 20 - unexpired) pages:
\* exactly n pages change, all of them to processing, exactly n timestamps
\* equal to the tick time are appended to the log, and processPage is called
\* once for each of the n pages and for no other.
TickAdmitsMinimum ==
    [][(/\ Scheduler
        /\ rHasKey
        /\ FoundPending >= 1
        /\ FoundFreeSlots > 0
        /\ FoundRateRoom > 0)
          => /\ Cardinality(Admitted) = FoundMinimum
             /\ DOMAIN pages' = DOMAIN pages
             /\ \A i \in DOMAIN pages \ Admitted : pages'[i] = pages[i]
             /\ requestHistory' = requestHistory \o [k \in 1..FoundMinimum |-> now]
             /\ \A i \in DOMAIN pages :
                   /\ calls'[pages[i].id].fresh =
                         calls[pages[i].id].fresh + (IF i \in Admitted THEN 1 ELSE 0)
                   /\ calls'[pages[i].id].stale = calls[pages[i].id].stale]_vars

\* the window held 19 admissions when two pages were pending: one page
\* was admitted at the tick time and the other still waits
TickAdmitsMinimumWitness ==
    /\ Quiescent
    /\ Len(pages) = 2
    /\ CountStatus(pages, "pending") = 1
    /\ CountStatus(pages, "processing") = 1
    /\ AdmissionsInWindow(now) = RPM_LIMIT
    /\ now > 0
    /\ Cardinality({k \in DOMAIN admissions : admissions[k] = now}) = 1

\* C24: a tick that finds no pending page, or 5 or more pages processing, or
\* 20 or more unexpired timestamps in the log changes no page, appends no
\* timestamp and calls processPage for no page.
BlockedTickIsNoOp ==
    [][(/\ Scheduler
        /\ \/ FoundPending = 0
           \/ FoundFreeSlots <= 0
           \/ FoundRateRoom <= 0)
          => /\ pages' = pages
             /\ requestHistory' = requestHistory
             /\ calls' = calls
             /\ dispatched' = dispatched]_vars

\* five pages are processing and the sixth waits: the tick that saw this has
\* run and nothing was admitted after the first five
BlockedTickIsNoOpWitness ==
    /\ Quiescent
    /\ CountStatus(pages, "processing") = CONCURRENCY_LIMIT
    /\ CountStatus(pages, "pending") = 1
    /\ Len(admissions) = CONCURRENCY_LIMIT
    /\ Len(requestHistory) = CONCURRENCY_LIMIT

\* C25: in each iteration of the slicing loop the candidates are exactly the
\* hints whose midpoint is strictly greater than the current position + 100;
\* the chosen zone is the candidate at the smallest distance between midpoint
\* and desired cut, the earliest of the hint list on a tie; the scanner is run
\* on the rows of the chosen zone exactly if that distance is below 1800, and
\* otherwise, or without a candidate, the scanner is run on the fallback window
\* only.  Midpoints and distances are compared after multiplication by
\* 2 * PercentSteps, which keeps them integers.
ZoneSelectionRule ==
    [][(/\ split.phase = "slicing"
        /\ split'.phase = "slicing"
        /\ Len(split'.splitPoints) = Len(split.splitPoints) + 1)
          => LET zones == split.zones.zones
                 unit == 2 * PercentSteps
                 desired == split.currentY + 2500
                 mid(i) == (zones[i].start_percent + zones[i].end_percent) * split.height
                 dist(i) == IF mid(i) >= unit * desired
                            THEN mid(i) - unit * desired
                            ELSE unit * desired - mid(i)
                 candidates == {i \in DOMAIN zones : mid(i) > unit * (split.currentY + 100)}
                 new == SubSeq(split'.scans, Len(split.scans) + 1, Len(split'.scans))
             IN  /\ Len(new) >= 1
                 /\ IF \E i \in candidates : dist(i) < unit * 1800
                    THEN LET chosen == CHOOSE i \in candidates :
                                 \A j \in candidates :
                                     dist(i) < dist(j) \/ (dist(i) = dist(j) /\ i <= j)
                         IN  /\ new[1].from = "zone"
                             /\ new[1].startY =
                                   (zones[chosen].start_percent * split.height)
                                       \div PercentSteps
                             /\ new[1].endY =
                                   (zones[chosen].end_percent * split.height)
                                       \div PercentSteps
                             /\ \A k \in 2..Len(new) : new[k].from = "fallback"
                    ELSE /\ Len(new) = 1
                         /\ new[1].from = "fallback"
                         /\ new[1].startY =
                               (IF split.currentY + 100 >= desired - 300
                                THEN split.currentY + 100 ELSE desired - 300)
                         /\ new[1].endY =
                               (IF split.height - 10 <= desired + 300
                                THEN split.height - 10 ELSE desired + 300)]_vars

\* two hints with the same midpoint: the scanner was run on the rows of the
\* first, and in the next iteration no hint was usable and the fallback
\* window was used
ZoneSelectionRuleWitness ==
    /\ split.height = 5000
    /\ split.zones = [kind |-> "list", zones |-> <<Zone(1, 3), Zone(2, 2)>>]
    /\ Len(split.scans) = 2
    /\ split.scans[1].from = "zone"
    /\ split.scans[1].startY = 1250 /\ split.scans[1].endY = 3750
    /\ split.scans[2].from = "fallback"

\* C26 as stated: once a cut has been taken from a hint zone, no later
\* iteration of the slicing loop runs the scanner on that same zone
ZoneNeverSelectedAgain ==
    \A i, j \in DOMAIN split.scans :
        (/\ i < j
         /\ split.scans[i].from = "zone"
         /\ split.scans[i].cutY # -1
         /\ split.scans[j].from = "zone")
            => ~(/\ split.scans[j].startY = split.scans[i].startY
                 /\ split.scans[j].endY = split.scans[i].endY)

\* C27: whenever the fallback is reached (desired cut = current + 2500 below
\* the image height) its window [max(current + 100, desired - 300),
\* min(height - 10, desired + 300)) is non-empty and inside the image, the
\* fallback cut c satisfies desired - 300 <= c < desired + 300, c > current and
\* c <= height - 11, and the cut is appended as the scanner returned it.
FallbackWindowSound ==
    \A i \in DOMAIN split.scans :
        split.scans[i].from = "fallback" =>
            LET current == split.scans[i].currentY
                desired == current + 2500
                c == split.scans[i].cutY
            IN  /\ desired < split.height
                /\ split.scans[i].startY < split.scans[i].endY
                /\ 0 <= split.scans[i].startY
                /\ split.scans[i].endY <= split.height
                /\ desired - 300 <= c /\ c < desired + 300
                /\ c > current
                /\ c <= split.height - 11
                /\ \E k \in 2..Len(split.splitPoints) :
                      /\ split.splitPoints[k - 1] = current
                      /\ split.splitPoints[k] = c

\* the second fallback window of a 5000-row image ends 10 rows above the
\* bottom and the scanner took its last row
FallbackWindowSoundWitness ==
    /\ split.phase = "resolved"
    /\ split.height = 5000
    /\ Len(split.scans) = 2
    /\ split.scans[2].from = "fallback"
    /\ split.scans[2].endY = split.height - 10
    /\ split.scans[2].endY < split.scans[2].currentY + 2500 + 300
    /\ split.scans[2].cutY = split.height - 11
    /\ split.guarded = 0

\* C28: within a non-empty zone the scanner returns the row with the minimum
\* composite score, the one with the lowest row index when several rows share
\* the minimum; and the row returned depends on the pixel rows of the zone
\* only: the canvas with every row outside [startY, endY) painted black gives
\* the same row, and so do any two canvases with the same rows in the zone.
ScannerReturnsFirstMinimum ==
    (scan.phase = "returned" /\ scan.startY < scan.endY) =>
        LET rows == 0..(scan.endY - scan.startY - 1)
            y == scan.result - scan.startY
            score == [z \in rows |-> Score(scan, z)]
            zoneOnly == [r \in 1..ScanCanvasHeight |->
                            IF scan.startY <= r - 1 /\ r - 1 < scan.endY
                            THEN scan.pixels[r]
                            ELSE [x \in 1..scan.width |-> 0]]
        IN  /\ y \in rows
            /\ \A z \in rows : score[y] <= score[z]
            /\ \A z \in rows : score[z] = score[y] => y <= z
            /\ findExactCutInZone([scan EXCEPT !.pixels = zoneOnly]) = scan.result

\* both rows of the canvas, equally flat and equally bright, have the minimum
\* score of a range that starts one row above the canvas, and the first of
\* them was returned
ScannerReturnsFirstMinimumWitness ==
    /\ scan.phase = "returned"
    /\ scan.width >= 3
    /\ scan.startY = -1 /\ scan.endY = 2
    /\ DiffSum(scan, 1) = DiffSum(scan, 2)
    /\ BrightnessSum3(scan, 1) = BrightnessSum3(scan, 2)
    /\ Score(scan, 1) = Score(scan, 2)
    /\ Score(scan, 1) < Score(scan, 0)
    /\ scan.result = 0

\* the number k with which the name of chunk i is tagged, 0 if the name is not
\* the file name with _part_k put before its suffix
PartTag(i) ==
    LET tags == {k \in 1..Len(split.splitPoints) :
                    split.chunks[i].name =
                        split.name.stem \o "_part_" \o ToString(k) \o split.name.suffix}
    IN  IF tags = {} THEN 0 ELSE CHOOSE k \in tags : TRUE

\* C29 as stated: a chunk is emitted for a consecutive pair (y1, y2) of the
\* sorted unique cut points exactly if y2 - y1 >= 100; every chunk is the rows
\* y1..y2-1 of such a pair; the chunks are emitted in ascending row order with
\* pairwise disjoint row ranges, and their names carry part tags that are
\* strictly increasing and unique
ChunkAssemblerContract ==
    Sliced =>
        LET points == UniquePoints(split.splitPoints)
            pairs == {<<points[k], points[k + 1]>> : k \in 1..(Len(points) - 1)}
            emitted == {<<split.chunks[i].y1, split.chunks[i].y2>> :
                           i \in DOMAIN split.chunks}
        IN  /\ emitted = {pair \in pairs : pair[2] - pair[1] >= 100}
            /\ \A i \in DOMAIN split.chunks : split.chunks[i].source = "canvas"
            /\ \A i, j \in DOMAIN split.chunks :
                  i < j => /\ split.chunks[i].y2 <= split.chunks[j].y1
                           /\ PartTag(i) >= 1
                           /\ PartTag(i) < PartTag(j)
                           /\ split.chunks[i].name # split.chunks[j].name

\* C30: once the pages of an upload exist no step adds, removes, reorders or
\* re-identifies a page or changes its source image or page number: the
\* sequence of ids stays the one created at upload and a page changes in its
\* status and result only.
PagesKeepIdentity ==
    [][pages # <<>> =>
          /\ DOMAIN pages' = DOMAIN pages
          /\ \A i \in DOMAIN pages :
                /\ pages'[i].id = pages[i].id
                /\ pages'[i].originalFile = pages[i].originalFile
                /\ pages'[i].pageNumber = pages[i].pageNumber
                /\ DOMAIN pages'[i] = DOMAIN pages[i]]_vars

\* ticks have admitted both pages twice, the calls have resolved and each page
\* was regenerated in between; the pages are those of the upload, in its order
PagesKeepIdentityWitness ==
    /\ pages = [i \in 1..2 |->
                   LET created == NewPages(Upload(2), "desc")[i]
                   IN  [created EXCEPT
                           !.status = "completed",
                           !.translatedUrl = TranslatedUrl(created.originalFile)]]
    /\ Len(admissions) = 4
    /\ \A id \in DOMAIN calls : calls[id].fresh = 0 /\ calls[id].stale = 0

\* C31 as stated: every page that is processing eventually leaves processing,
\* as completed or as error, because the call dispatched for it settles
ProcessingEventuallySettles ==
    \A i \in 1..2 :
        (i \in DOMAIN pages /\ pages[i].status = "processing")
            ~> (i \in DOMAIN pages /\ pages[i].status \in {"completed", "error"})

\* the number of pixels the loop of calculateRowEnergy samples in a row
Samples(width) == Cardinality(RowXs(width))

\* C32 as stated: for every row of the canvas that is scanned, brightness
\* (brightnessSum / count) is the mean over the sampled pixels of (R+G+B)/3 and
\* energy (diffSum / count) is the mean over the same samples of
\* |dR|+|dG|+|dB|; a row whose pixels all have the value v has brightness v and
\* energy 0, for every width from 1 on.  Compared after multiplication by the
\* divisors.
RowMeansOverSamples ==
    scan.phase = "returned" =>
        \A y \in 0..(scan.endY - scan.startY - 1) :
            (0 <= scan.startY + y /\ scan.startY + y < ScanCanvasHeight) =>
                /\ Samples(scan.width) > 0 =>
                      /\ BrightnessSum3(scan, y) * Samples(scan.width)
                            = BrightnessSum3(scan, y) * RowCount(scan.width)
                      /\ DiffSum(scan, y) * Samples(scan.width)
                            = DiffSum(scan, y) * RowCount(scan.width)
                /\ \A v \in GreyLevels :
                      (\A x \in 1..scan.width : scan.pixels[scan.startY + y + 1][x] = v) =>
                          /\ BrightnessSum3(scan, y) = 3 * v * RowCount(scan.width)
                          /\ DiffSum(scan, y) = 0

\* C33: in every reachable state a page has a result (translatedUrl is not
\* null) exactly if its status is completed; pending, processing and error
\* pages have none.
ResultIffCompleted ==
    \A i \in DOMAIN pages :
        (pages[i].translatedUrl # NullUrl) <=> (pages[i].status = "completed")

\* a page that was completed has been regenerated and has then failed, the
\* other page holds its result
ResultIffCompletedWitness ==
    /\ Len(pages) = 2
    /\ Len(admissions) >= 3
    /\ pages[1].status = "error" /\ pages[1].translatedUrl = NullUrl
    /\ pages[2].status = "completed" /\ pages[2].translatedUrl # NullUrl
    /\ \E k \in DOMAIN admissions : admissions[k] > 0

\* the calls of processPage that have not settled
UnresolvedCalls(id) == calls[id].fresh + calls[id].stale

\* C34: in every reachable state each processing page has exactly one
\* unresolved call of processPage and every other page has none, so the
\* unresolved calls are as many as the processing pages and never more than
\* CONCURRENCY_LIMIT = 5.
CallsMatchProcessing ==
    /\ \A i \in DOMAIN pages :
          UnresolvedCalls(pages[i].id) =
              (IF pages[i].status = "processing" THEN 1 ELSE 0)
    /\ Cardinality({id \in DOMAIN calls : UnresolvedCalls(id) > 0})
          = CountStatus(pages, "processing")
    /\ Cardinality({id \in DOMAIN calls : UnresolvedCalls(id) > 0}) <= CONCURRENCY_LIMIT
    /\ DOMAIN calls = {pages[i].id : i \in DOMAIN pages}

\* five calls are in flight, one of them for a page that was regenerated, and
\* the sixth page waits
CallsMatchProcessingWitness ==
    /\ Len(pages) = CONCURRENCY_LIMIT + 1
    /\ Cardinality({id \in DOMAIN calls : UnresolvedCalls(id) = 1}) = CONCURRENCY_LIMIT
    /\ CountStatus(pages, "pending") = 1
    /\ Len(admissions) = CONCURRENCY_LIMIT + 1

\* C35: while no key has been selected no page leaves pending, no timestamp
\* is recorded and no call of processPage is made, whatever else happens: every
\* page is pending, the log is empty and no call is unresolved as long as
\* hasKey is false, and no step taken without a key changes a page or the log;
\* and once hasKey is true it stays true.
NothingStartsWithoutKey ==
    [][/\ ~hasKey =>
             /\ \A i \in DOMAIN pages : pages[i].status = "pending"
             /\ requestHistory = <<>>
             /\ appended = 0
             /\ \A id \in DOMAIN calls : calls[id].fresh + calls[id].stale = 0
             /\ \A i \in DOMAIN pages : pages'[i] = pages[i]
             /\ requestHistory' = requestHistory
             /\ \A id \in DOMAIN calls : calls'[id] = calls[id]
       /\ hasKey => hasKey']_vars

\* two files were uploaded a minute ago, every render and effect has run and
\* the interval has fired, and still no key is selected: both pages wait
NothingStartsWithoutKeyWitness ==
    /\ ~hasKey
    /\ Len(pages) = 2
    /\ ~renderDue /\ ~effectDue
    /\ now = MaxTime
    /\ \A i \in DOMAIN pages : pages[i].status = "pending"
    /\ admissions = <<>>

\* the work items the files up to index n are to become: per file, in the
\* order of rawFiles, its chunks in chunk order, or the whole file when its
\* slicing was rejected
RECURSIVE ItemsOfFiles(_, _)
ItemsOfFiles(rawFiles, n) ==
    IF n = 0 THEN <<>>
    ELSE LET file == rawFiles[n]
             own == IF file.slicing.kind = "rejects" THEN <<WholeFile(file)>>
                    ELSE ChunksOf(file)
         IN  ItemsOfFiles(rawFiles, n - 1)
                 \o [k \in DOMAIN own |-> PreparedPage(file, own[k])]

\* the files are taken in sorted order, and what was collected so far (and
\* stored at the end) is, file by file, the chunks or the one whole-file item
PreparedItemsInOrder ==
    /\ prep.phase # "idle" =>
        /\ \A i, j \in DOMAIN prep.rawFiles :
              i < j => Compare(prep.rawFiles[i], prep.rawFiles[j], prep.sortOrder) <= 0
        /\ prep.newPages = ItemsOfFiles(prep.rawFiles, prep.file - 1)
    /\ prep.phase = "done" =>
        /\ ~prep.isPreparing
        /\ pages = WithIds(ItemsOfFiles(prep.rawFiles, Len(prep.rawFiles)))
        /\ \A i \in DOMAIN pages : pages[i].status = "pending"

\* C36: when uploaded files are prepared, a file whose slicing is rejected
\* still becomes exactly one pending item holding the whole file, the items
\* follow the sorted file order with each file's chunks in chunk order, and
\* preparation always finishes: isPreparing, once true, becomes false again
\* whatever the outcome of slicing
PreparationAlwaysFinishes ==
    /\ []PreparedItemsInOrder
    /\ prep.isPreparing ~> ~prep.isPreparing

====
